---- MODULE Spec2Model ----
(***************************************************************************)
(* Model of the shape-extraction and mapping engine of schemamatic:        *)
(*   src/src/convert.rs        extract_shapes_from_ast, build_linkml_doc,  *)
(*                             build_json_schema                           *)
(*   src/src/linkml_to_shex.rs linkml_yaml_to_shex                         *)
(*                                                                         *)
(* Trees (serde_json::Value, serde_yaml::Value) are records [k, v]: k is   *)
(* the variant, v its payload.  A mapping's payload is the sequence of its *)
(* <<key, value>> entries in iteration order; keys of one mapping are      *)
(* pairwise distinct.  Option<T> is a sequence of length 0 (None) or 1.    *)
(***************************************************************************)
EXTENDS Integers, Sequences, FiniteSets, TLC

VARIABLES pc, ast, shapes, visited, origins, linkml, json, doc, shex

vars == <<pc, ast, shapes, visited, origins, linkml, json, doc, shex>>

(***************************************************************************)
(* Option and sequence helpers.                                            *)
(***************************************************************************)
None == <<>>

Some(x) == <<x>>

Range(s) == {s[i] : i \in DOMAIN s}

RECURSIVE Flatten(_)
Flatten(ss) == IF ss = <<>> THEN <<>> ELSE Head(ss) \o Flatten(Tail(ss))

RECURSIVE JoinStr(_)
JoinStr(ts) == IF ts = <<>> THEN "" ELSE Head(ts) \o JoinStr(Tail(ts))

(***************************************************************************)
(* serde_json::Value                                                       *)
(***************************************************************************)
JObj(es) == [k |-> "obj", v |-> es]

JArr(xs) == [k |-> "arr", v |-> xs]

JStr(s) == [k |-> "str", v |-> s]

JNum(n) == [k |-> "num", v |-> n]

JNull == [k |-> "null", v |-> 0]

\* Value::as_object(): Some for the Object variant only.
IsObject(x) == x.k = "obj"

\* Value::as_array(): Some for the Array variant only.
IsArray(x) == x.k = "arr"

\* Map::contains_key
contains_key(x, key) == \E i \in DOMAIN x.v : x.v[i][1] = key

\* Value::get(&str): Some(value) when x is an object holding the key, else None.
get(x, key) ==
    IF IsObject(x) /\ contains_key(x, key)
    THEN Some(x.v[CHOOSE i \in DOMAIN x.v : x.v[i][1] = key][2])
    ELSE None

\* Option::or_else
or_else(a, b) == IF a # None THEN a ELSE b

\* Option<&Value>::and_then(|v| v.as_str())
as_str(o) == IF o # None /\ o[1].k = "str" THEN Some(o[1].v) ELSE None

\* Option<&Value>::and_then(|v| v.as_u64()): Some for a non-negative integer.
as_u64(o) == IF o # None /\ o[1].k = "num" THEN Some(o[1].v) ELSE None

(***************************************************************************)
(* Strings.  TLC strings are atomic, so str::split is modelled on the      *)
(* token form of a string: the sequence of its maximal separator-free runs *)
(* and its separator characters, in order.  Tokens is that form for every  *)
(* string the model uses as a predicate (TokensSound checks it).           *)
(***************************************************************************)
XsdNs == "http://www.w3.org/2001/XMLSchema#"

Separators == {"/", "#", ":"}

Tokens(s) ==
    CASE s = "http://example.org/ns/2#name" ->
            <<"http", ":", "/", "/", "example.org", "/", "ns", "/", "2", "#", "name">>
      [] s = "http://example.org/ns/2#age" ->
            <<"http", ":", "/", "/", "example.org", "/", "ns", "/", "2", "#", "age">>
      [] s = "ex:name" -> <<"ex", ":", "name">>
      [] s = "foaf:name" -> <<"foaf", ":", "name">>
      [] s = "http://example.org/" -> <<"http", ":", "/", "/", "example.org", "/">>
      [] OTHER -> <<s>>

PredicateStrings ==
    {"http://example.org/ns/2#name", "http://example.org/ns/2#age", "ex:name", "foaf:name",
     "http://example.org/", "name", "<unknown>"}

\* the token form spells the string, and no run holds a separator
TokensSound == \A p \in PredicateStrings : JoinStr(Tokens(p)) = p

\* predicate.split(|c| c == '/' || c == '#' || c == ':').last().unwrap_or(&predicate)
LastSegment(s) ==
    LET ts == Tokens(s)
    IN  IF ts[Len(ts)] \in Separators THEN "" ELSE ts[Len(ts)]

\* s.starts_with("http://www.w3.org/2001/XMLSchema#"), over the datatypes in use.
XsdLocals == {"integer", "decimal", "boolean", "string", "date"}

starts_with_xsd(s) == \E l \in XsdLocals : s = XsdNs \o l

(***************************************************************************)
(* convert.rs: infer_range_from_tc, build_prop_from_tc                     *)
(***************************************************************************)
infer_range_from_tc(tcobj) ==
    LET dt == as_str(get(tcobj, "datatype"))
        nk == as_str(get(tcobj, "nodeKind"))
        vc == get(tcobj, "valueClass")
    IN  IF dt # None THEN
            CASE dt[1] = XsdNs \o "integer" -> "integer"
              [] dt[1] = XsdNs \o "decimal" -> "number"
              [] dt[1] = XsdNs \o "boolean" -> "boolean"
              [] OTHER -> IF starts_with_xsd(dt[1]) THEN "string" ELSE dt[1]
        ELSE IF nk # None THEN "string"
        ELSE IF vc # None THEN
            IF vc[1].k = "str" THEN vc[1].v
            ELSE IF IsObject(vc[1]) THEN
                LET reference == as_str(get(vc[1], "reference"))
                IN  IF reference # None THEN reference[1] ELSE "string"
            ELSE "string"
        ELSE "string"

PropertyInfo(name, predicate, range, min, max) ==
    [name |-> name, predicate |-> predicate, range |-> range, min |-> min, max |-> max]

build_prop_from_tc(tcobj) ==
    LET p == as_str(get(tcobj, "predicate"))
        predicate == IF p # None THEN p[1] ELSE "<unknown>"
    IN  PropertyInfo(LastSegment(predicate), predicate, infer_range_from_tc(tcobj),
                     as_u64(get(tcobj, "min")), as_u64(get(tcobj, "max")))

(***************************************************************************)
(* convert.rs: extract_props_from_shape                                    *)
(***************************************************************************)
\* for tc in arr.iter() { if let Some(tcobj) = tc.as_object() { props.push(..) } }
RECURSIVE PropsOfArray(_, _)
PropsOfArray(arr, needPredicate) ==
    IF arr = <<>> THEN <<>>
    ELSE LET x == Head(arr)
             take == IsObject(x) /\ (needPredicate => contains_key(x, "predicate"))
         IN  (IF take THEN <<build_prop_from_tc(x)>> ELSE <<>>)
                 \o PropsOfArray(Tail(arr), needPredicate)

\* if let Some(tcs) = c.get(k1).or_else(|| c.get(k2)) { if let Some(arr) = tcs.as_array() {..} }
PropsUnder(c, k1, k2, needPredicate) ==
    LET tcs == or_else(get(c, k1), get(c, k2))
    IN  IF tcs # None /\ IsArray(tcs[1]) THEN PropsOfArray(tcs[1].v, needPredicate) ELSE <<>>

extract_props_from_shape(shape_val) ==
    IF ~IsObject(shape_val) THEN <<>>
    ELSE
        LET expr == or_else(get(shape_val, "expression"), get(shape_val, "shapeExpr"))
            p1 == IF expr = None THEN <<>>
                  ELSE PropsUnder(expr[1], "tripleConstraints", "triple_constraints", FALSE)
            p2 == IF expr # None /\ p1 = <<>>
                  THEN PropsUnder(expr[1], "items", "expressions", TRUE)
                  ELSE p1
        IN  IF p2 = <<>>
            THEN PropsUnder(shape_val, "tripleConstraints", "triple_constraints", FALSE)
            ELSE p2

(***************************************************************************)
(* convert.rs: extract_shapes_from_ast / walk_for_shapes.                  *)
(* A position in the tree is the path of child indices from the root.      *)
(* Besides `out`, the walk reports the positions walk_for_shapes was       *)
(* called on (visited) and, per pushed ShapeInfo, the position of the      *)
(* candidate body it was built from (origins).                             *)
(***************************************************************************)
ContainerKeys == {"shapeExprs", "shapes", "shapeDecls"}

ShapeInfo(label, props) == [id |-> label, name |-> label, properties |-> props]

\* obj.contains_key("shapeExprs") || obj.contains_key("shapes") || obj.contains_key("shapeDecls")
is_container(obj) == \E key \in ContainerKeys : contains_key(obj, key)

FirstMappingMutLast(obj) ==
    IF \E i \in DOMAIN obj.v : IsObject(obj.v[i][2])
    THEN CHOOSE i \in DOMAIN obj.v :
            /\ IsObject(obj.v[i][2])
            /\ \A j \in DOMAIN obj.v : IsObject(obj.v[j][2]) => j <= i
    ELSE 0

\* for (_k, v2) in obj.iter() { if let Some(m) = v2.as_object() { ...; return; } }
\* the entry the loop stops at: the first whose value is an object (0: none).
FirstMapping(obj) ==
    IF \E i \in DOMAIN obj.v : IsObject(obj.v[i][2])
    THEN CHOOSE i \in DOMAIN obj.v :
            /\ IsObject(obj.v[i][2])
            /\ \A j \in DOMAIN obj.v : IsObject(obj.v[j][2]) => i <= j
    ELSE 0

RetainedMutAlways(props) == TRUE

\* if !props.is_empty() { out.push(..) }
Retained(props) == props # <<>>

\* for (label, possible_shape) in m.iter() { .. }, from entry i on
RECURSIVE PushCandidates(_, _, _)
PushCandidates(es, i, path) ==
    IF i > Len(es) THEN [out |-> <<>>, origins |-> <<>>]
    ELSE LET props == extract_props_from_shape(es[i][2])
             rest == PushCandidates(es, i + 1, path)
         IN  IF Retained(props)
             THEN [out |-> <<ShapeInfo(es[i][1], props)>> \o rest.out,
                   origins |-> <<Append(path, i)>> \o rest.origins]
             ELSE rest

ReturnsEarlyMutAnyContainer(obj) == is_container(obj)

\* the `return` of line 52 is reached: a container key matched and the loop
\* over the entries met a value that is an object.
ReturnsEarly(obj) == is_container(obj) /\ FirstMapping(obj) # 0

RECURSIVE walk_for_shapes(_, _)
RECURSIVE WalkChildren(_, _, _)
\* for (_k, v2) in obj.iter() { walk_for_shapes(v2, out); } / for e in arr { .. }
WalkChildren(children, i, path) ==
    IF i > Len(children) THEN [out |-> <<>>, origins |-> <<>>, visited |-> {}]
    ELSE LET a == walk_for_shapes(children[i], Append(path, i))
             b == WalkChildren(children, i + 1, path)
         IN  [out |-> a.out \o b.out, origins |-> a.origins \o b.origins,
              visited |-> a.visited \cup b.visited]

walk_for_shapes(v, path) ==
    IF IsObject(v) THEN
        IF ReturnsEarly(v) THEN
            LET fm == FirstMapping(v)
                r == IF fm = 0 THEN [out |-> <<>>, origins |-> <<>>]
                     ELSE PushCandidates(v.v[fm][2].v, 1, Append(path, fm))
            IN  [out |-> r.out, origins |-> r.origins, visited |-> {path}]
        ELSE
            LET r == WalkChildren([i \in DOMAIN v.v |-> v.v[i][2]], 1, path)
            IN  [r EXCEPT !.visited = @ \cup {path}]
    ELSE IF IsArray(v) THEN
        LET r == WalkChildren(v.v, 1, path)
        IN  [r EXCEPT !.visited = @ \cup {path}]
    ELSE [out |-> <<>>, origins |-> <<>>, visited |-> {path}]

extract_shapes_from_ast(a) == walk_for_shapes(a, <<>>)

(***************************************************************************)
(* serde_yaml::Value.  Mapping keys are values themselves.  A number is    *)
(* "int" when as_i64() reads it (v is then its value) and "big" when it is *)
(* an unsigned number above i64::MAX, which as_i64() does not read.        *)
(***************************************************************************)
YMap(es) == [k |-> "map", v |-> es]

YSeq(xs) == [k |-> "seq", v |-> xs]

YStr(s) == [k |-> "str", v |-> s]

YInt(n) == [k |-> "int", v |-> n]

YBig == [k |-> "big", v |-> 0]

YNull == [k |-> "null", v |-> 0]

IsMapping(x) == x.k = "map"

\* Mapping::get(&key)
map_get(es, key) ==
    IF \E i \in DOMAIN es : es[i][1] = key
    THEN Some(es[CHOOSE i \in DOMAIN es : es[i][1] = key][2])
    ELSE None

\* Value::get("name"): the value under the string key of a mapping, else None.
yaml_get(x, name) == IF IsMapping(x) THEN map_get(x.v, YStr(name)) ELSE None

map_insertMutKeepFirst(es, key, val) ==
    IF \E i \in DOMAIN es : es[i][1] = key THEN es ELSE Append(es, <<key, val>>)

\* Mapping::insert: the value of an existing key is replaced in place, a new
\* key is appended.
map_insert(es, key, val) ==
    IF \E i \in DOMAIN es : es[i][1] = key
    THEN [i \in DOMAIN es |-> IF es[i][1] = key THEN <<key, val>> ELSE es[i]]
    ELSE Append(es, <<key, val>>)

\* Option<&Value>::and_then(|v| v.as_i64())
as_i64(o) == IF o # None /\ o[1].k = "int" THEN Some(o[1].v) ELSE None

unwrap_or(o, d) == IF o # None THEN o[1] ELSE d

(***************************************************************************)
(* convert.rs: build_linkml_doc.  `stem` is input.file_stem() as an        *)
(* Option.  The result is the document the returned YAML text denotes.     *)
(***************************************************************************)
\* slot_entry: range, then min_count / max_count when the Option holds a value
SlotEntry(p) ==
    <<<<YStr("range"), YStr(p.range)>>>>
        \o (IF p.min # None THEN <<<<YStr("min_count"), YInt(p.min[1])>>>> ELSE <<>>)
        \o (IF p.max # None THEN <<<<YStr("max_count"), YInt(p.max[1])>>>> ELSE <<>>)

\* for p in s.properties.iter() { ..; slots_map.insert(p.name, slot_entry) }
RECURSIVE InsertSlots(_, _)
InsertSlots(slots_map, props) ==
    IF props = <<>> THEN slots_map
    ELSE InsertSlots(map_insert(slots_map, YStr(Head(props).name), YMap(SlotEntry(Head(props)))),
                     Tail(props))

SlotRefsMutDropLast(s) ==
    YSeq([i \in 1..(Len(s.properties) - 1) |-> YStr(s.properties[i].name)])

\* slot_refs: the property names, in declaration order
SlotRefs(s) == YSeq([i \in DOMAIN s.properties |-> YStr(s.properties[i].name)])

\* for s in shapes.iter() { .. }: the pair <<classes_map, slots_map>>
RECURSIVE EmitShapes(_, _, _)
EmitShapes(ss, classes_map, slots_map) ==
    IF ss = <<>> THEN <<classes_map, slots_map>>
    ELSE LET s == Head(ss)
             class_map == <<<<YStr("slots"), SlotRefs(s)>>>>
         IN  EmitShapes(Tail(ss),
                        map_insert(classes_map, YStr(s.name), YMap(class_map)),
                        InsertSlots(slots_map, s.properties))

build_linkml_doc(stem, ss) ==
    LET id == unwrap_or(stem, "schema")
        prefixes == <<<<YStr("ex"), YStr("http://example.org/")>>>>
        cs == EmitShapes(ss, <<>>, <<>>)
    IN  YMap(<<<<YStr("id"), YStr(id)>>,
               <<YStr("prefixes"), YMap(prefixes)>>,
               <<YStr("classes"), YMap(cs[1])>>,
               <<YStr("slots"), YMap(cs[2])>>>>)

(***************************************************************************)
(* convert.rs: build_json_schema.  serde_json's Map keeps one value per    *)
(* key (json_insert).                                                      *)
(***************************************************************************)
json_insert(es, key, val) ==
    IF \E i \in DOMAIN es : es[i][1] = key
    THEN [i \in DOMAIN es |-> IF es[i][1] = key THEN <<key, val>> ELSE es[i]]
    ELSE Append(es, <<key, val>>)

JsonType(range) ==
    JObj(<<<<"type", JStr(IF range \in {"integer", "number", "boolean"} THEN range ELSE "string")>>>>)

IsRequiredMutPresent(p) == p.min # None

\* p.min.unwrap_or(0) > 0
IsRequired(p) == unwrap_or(p.min, 0) > 0

\* for p in s.properties.iter() { props.insert(..); if .. { required.push(..) } }
RECURSIVE SchemaProps(_, _, _)
SchemaProps(ps, props, required) ==
    IF ps = <<>> THEN <<props, required>>
    ELSE LET p == Head(ps)
         IN  SchemaProps(Tail(ps), json_insert(props, p.name, JsonType(p.range)),
                         IF IsRequired(p) THEN Append(required, JStr(p.name)) ELSE required)

\* if !required.is_empty() { obj.insert("required", ..) }: the key is left out
OmitRequired(required) == required = <<>>

SchemaOfShape(s) ==
    LET pr == SchemaProps(s.properties, <<>>, <<>>)
    IN  JObj(<<<<"type", JStr("object")>>, <<"properties", JObj(pr[1])>>>>
             \o (IF OmitRequired(pr[2]) THEN <<>> ELSE <<<<"required", JArr(pr[2])>>>>))

RECURSIVE SchemaDefs(_, _)
SchemaDefs(ss, defs) ==
    IF ss = <<>> THEN defs
    ELSE SchemaDefs(Tail(ss), json_insert(defs, Head(ss).name, SchemaOfShape(Head(ss))))

build_json_schema(ss) ==
    JObj(<<<<"$schema", JStr("http://json-schema.org/draft-07/schema#")>>,
           <<"$id", JStr("http://example.org/generated-schema")>>,
           <<"definitions", JObj(SchemaDefs(ss, <<>>))>>>>)

(***************************************************************************)
(* linkml_to_shex.rs: linkml_yaml_to_shex, on the parsed document.         *)
(* The output text is modelled as the sequence of its lines, each ended by  *)
(* a newline in the text; `items` records what each line was built from.   *)
(***************************************************************************)
IsStrPairMutKeyOnly(e) == e[1].k = "str"

\* if let (YamlValue::String(k1), YamlValue::String(v1)) = (k.clone(), v.clone())
IsStrPair(e) == e[1].k = "str" /\ e[2].k = "str"

\* m.iter().filter_map(..).collect(): the <<label, iri>> pairs of strings
RECURSIVE StrPairs(_)
StrPairs(es) ==
    IF es = <<>> THEN <<>>
    ELSE (IF IsStrPair(Head(es)) THEN <<<<Head(es)[1].v, Head(es)[2].v>>>> ELSE <<>>)
             \o StrPairs(Tail(es))

Prefixes(d) ==
    LET m == yaml_get(d, "prefixes")
    IN  IF m # None /\ IsMapping(m[1]) THEN StrPairs(m[1].v) ELSE <<>>

ClassesMutDefaultEmpty(d) ==
    LET m == yaml_get(d, "classes")
    IN  IF m # None /\ IsMapping(m[1]) THEN Some(m[1].v) ELSE Some(<<>>)

\* match doc.get("classes") { Some(YamlValue::Mapping(m)) => m.clone(), _ => bail!(..) }
\* Some(entries), or None where the code bails
Classes(d) ==
    LET m == yaml_get(d, "classes")
    IN  IF m # None /\ IsMapping(m[1]) THEN Some(m[1].v) ELSE None

\* match doc.get("slots") { Some(YamlValue::Mapping(m)) => m.clone(), _ => Mapping::new() }
Slots(d) ==
    LET m == yaml_get(d, "slots")
    IN  IF m # None /\ IsMapping(m[1]) THEN m[1].v ELSE <<>>

\* the closure pred_for
pred_for(prefixes, slot_name) ==
    IF prefixes # <<>> THEN prefixes[1][1] \o ":" \o slot_name
    ELSE "http://example.org/" \o slot_name

\* (range_str, minc, maxc) of a slot name
SlotDef(slots, slot_name) ==
    LET slot_def == map_get(slots, YStr(slot_name))
    IN  IF slot_def # None /\ IsMapping(slot_def[1])
        THEN LET m == slot_def[1].v
             IN  [range_str |-> unwrap_or(as_str(map_get(m, YStr("range"))), "string"),
                  minc |-> unwrap_or(as_i64(map_get(m, YStr("min_count"))), 0),
                  maxc |-> unwrap_or(as_i64(map_get(m, YStr("max_count"))), 1)]
        ELSE [range_str |-> "string", minc |-> 0, maxc |-> 1]

qcMutStarFromOne(minc, maxc) ==
    IF minc = 0 /\ maxc >= 1 THEN "*"
    ELSE IF minc = 1 /\ maxc > 1 THEN "+"
    ELSE IF minc = 1 /\ maxc = 1 THEN ""
    ELSE "?"

qc(minc, maxc) ==
    IF minc = 0 /\ maxc > 1 THEN "*"
    ELSE IF minc = 1 /\ maxc > 1 THEN "+"
    ELSE IF minc = 1 /\ maxc = 1 THEN ""
    ELSE "?"

constraint(range_str) ==
    IF range_str = "string" THEN ""
    ELSE IF range_str = "integer" THEN " xsd:integer"
    ELSE ""

SlotLineMutNoConstraint(pred, c, q) == "  " \o pred \o " " \o q \o " ;"

\* format!("  {} {}{} ;\n", pred, constraint, qc)
SlotLine(pred, c, q) == "  " \o pred \o " " \o c \o q \o " ;"

\* for s in sarr.iter() { if let YamlValue::String(slot_name) = s { .. } }
RECURSIVE SlotItems(_, _, _, _)
SlotItems(sarr, slots, prefixes, class_name) ==
    IF sarr = <<>> THEN <<>>
    ELSE LET s == Head(sarr)
             rest == SlotItems(Tail(sarr), slots, prefixes, class_name)
         IN  IF s.k = "str"
             THEN LET d == SlotDef(slots, s.v)
                      pred == pred_for(prefixes, s.v)
                      q == qc(d.minc, d.maxc)
                  IN  <<[kind |-> "slot", class |-> class_name, slot |-> s.v,
                         pred |-> pred, qc |-> q,
                         text |-> SlotLine(pred, constraint(d.range_str), q)]>> \o rest
             ELSE rest

Line(kind, class_name, text) ==
    [kind |-> kind, class |-> class_name, slot |-> "", pred |-> "", qc |-> "", text |-> text]

HasSlotsSeq(class_entry) ==
    /\ IsMapping(class_entry)
    /\ LET sv == yaml_get(class_entry, "slots") IN sv # None /\ sv[1].k = "seq"

\* for (class_name_val, class_entry) in classes.iter() { .. }
RECURSIVE ClassItems(_, _, _)
ClassItems(classes, slots, prefixes) ==
    IF classes = <<>> THEN <<>>
    ELSE LET class_name_val == Head(classes)[1]
             class_entry == Head(classes)[2]
             rest == ClassItems(Tail(classes), slots, prefixes)
         IN  IF class_name_val.k = "str"
             THEN LET cn == class_name_val.v
                  IN  <<Line("head", cn, "<" \o cn \o "> IRI")>>
                      \o (IF HasSlotsSeq(class_entry)
                          THEN <<Line("open", cn, "{")>>
                               \o SlotItems(yaml_get(class_entry, "slots")[1].v,
                                            slots, prefixes, cn)
                               \o <<Line("close", cn, "}"), Line("blank", cn, "")>>
                          ELSE <<>>)
                      \o rest
             ELSE rest

Ok(items) == [ok |-> TRUE, err |-> "", items |-> items]

\* anyhow::bail!: the message, without its backquotes around the word classes
Err(msg) == [ok |-> FALSE, err |-> msg, items |-> <<>>]

linkml_yaml_to_shex(d) ==
    LET prefixes == Prefixes(d)
        classes == Classes(d)
    IN  IF classes = None THEN Err("LinkML YAML missing classes mapping")
        ELSE Ok(ClassItems(classes[1], Slots(d), prefixes))

\* the lines of the output text
Lines(r) == [i \in DOMAIN r.items |-> r.items[i].text]

(***************************************************************************)
(* Bounds of the inputs.                                                   *)
(***************************************************************************)
\* cardinalities (min, max, min_count, max_count) range over 0..MaxCount
MaxCount == 2

\* properties per shape, triple constraints per candidate body
MaxProps == 2

\* shapes per intermediate model, labels per label mapping
MaxShapes == 2

Opt(S) == {None} \cup {Some(x) : x \in S}

SeqsUpTo(S, n) == UNION {[1..m -> S] : m \in 0..n}

Counts == 0..MaxCount

(***************************************************************************)
(* Input trees of the extractor.                                           *)
(***************************************************************************)
Field(key, o) == IF o = None THEN <<>> ELSE <<<<key, o[1]>>>>

NumField(key, o) == IF o = None THEN <<>> ELSE <<<<key, JNum(o[1])>>>>

\* a triple constraint: predicate, the entries that give its range, min, max
MkTC(pred, type, min, max) ==
    JObj(Field("predicate", pred) \o type \o NumField("min", min) \o NumField("max", max))

TcPreds ==
    {None, Some(JNum(7)), Some(JStr("http://example.org/ns/2#name")),
     Some(JStr("http://example.org/ns/2#age")), Some(JStr("ex:name")),
     Some(JStr("name")), Some(JStr("http://example.org/"))}

TcTypes ==
    {<<>>,
     <<<<"datatype", JStr(XsdNs \o "integer")>>>>,
     <<<<"datatype", JStr(XsdNs \o "decimal")>>>>,
     <<<<"datatype", JStr(XsdNs \o "boolean")>>>>,
     <<<<"datatype", JStr(XsdNs \o "string")>>>>,
     <<<<"datatype", JStr(XsdNs \o "date")>>>>,
     <<<<"datatype", JStr("http://example.org/custom")>>>>,
     <<<<"datatype", JNum(1)>>, <<"nodeKind", JStr("iri")>>>>,
     <<<<"nodeKind", JStr("bnode")>>, <<"valueClass", JStr("Org")>>>>,
     <<<<"valueClass", JStr("Org")>>>>,
     <<<<"valueClass", JObj(<<<<"type", JStr("ShapeRef")>>, <<"reference", JStr("Org")>>>>)>>>>,
     <<<<"valueClass", JObj(<<>>)>>>>,
     <<<<"valueClass", JNull>>>>}

\* the two constraints of the Person shape (name: xsd:string; age: xsd:integer ?)
TcName ==
    MkTC(Some(JStr("http://example.org/ns/2#name")),
         <<<<"datatype", JStr(XsdNs \o "string")>>>>, None, None)

TcAge ==
    MkTC(Some(JStr("http://example.org/ns/2#age")),
         <<<<"datatype", JStr(XsdNs \o "integer")>>>>, Some(0), Some(1))

\* a second constraint whose predicate ends in the segment "name"
TcFoafName == MkTC(Some(JStr("foaf:name")), <<>>, Some(1), None)

AllTCs ==
    {MkTC(p, t, None, None) : p \in TcPreds, t \in TcTypes}
        \cup {MkTC(Some(JStr("ex:name")), <<>>, mn, mx) : mn \in Opt(Counts), mx \in Opt(Counts)}
        \cup {JObj(<<<<"predicate", JStr("ex:name")>>, <<"min", JStr("1")>>, <<"max", JNull>>>>)}

TcLists == SeqsUpTo({TcName, TcAge, JStr("x")}, MaxProps)

BodyExpr(tcs) == JObj(<<<<"type", JStr("Shape")>>,
                        <<"expression", JObj(<<<<"tripleConstraints", JArr(tcs)>>>>)>>>>)

BodyShapeExpr(tcs) == JObj(<<<<"shapeExpr", JObj(<<<<"triple_constraints", JArr(tcs)>>>>)>>>>)

BodyItems(tcs) == JObj(<<<<"expression", JObj(<<<<"tripleConstraints", JArr(<<>>)>>,
                                                  <<"expressions", JArr(tcs)>>>>)>>,
                         <<"tripleConstraints", JArr(<<TcAge>>)>>>>)

BodyDirect(tcs) == JObj(<<<<"expression", JStr("none")>>, <<"triple_constraints", JArr(tcs)>>>>)

\* a candidate body that is itself a container with a shape beneath it
BodyNested == JObj(<<<<"shapes", JObj(<<<<"Inner", BodyExpr(<<TcName>>)>>>>)>>>>)

AllBodies ==
    UNION {{BodyExpr(l), BodyShapeExpr(l), BodyItems(l), BodyDirect(l), JArr(l)} : l \in TcLists}
        \cup {JStr("Person"), JNull, JObj(<<>>), BodyNested,
              JObj(<<<<"expression", JObj(<<<<"tripleConstraints", JObj(<<>>)>>>>)>>>>)}

CoreBodies == {BodyExpr(<<TcName, TcAge>>), BodyDirect(<<TcAge>>), BodyExpr(<<>>),
               JObj(<<>>), BodyNested}

LabelSeq == <<"Person", "Org", "Place", "Event">>

\* mappings of the first n labels, n <= MaxShapes, to candidate bodies
LabelMaps(n) ==
    {JObj([i \in DOMAIN bs |-> <<LabelSeq[i], bs[i]>>]) : bs \in SeqsUpTo(CoreBodies, n)}

AstInputs ==
    LET M == LabelMaps(MaxShapes)
        M1 == LabelMaps(1)
    IN  {JObj(<<<<"shapes", JObj(<<<<"Person", BodyExpr(<<tc>>)>>>>)>>>>) : tc \in AllTCs}
        \cup {JObj(<<<<"shapeDecls", JObj(<<<<"Person", b>>>>)>>>>) : b \in AllBodies}
        \cup {JObj(<<<<"shapes", m>>>>) : m \in M}
        \cup {JObj(<<<<"type", JStr("Schema")>>, <<"shapeExprs", m>>>>) : m \in M}
        \cup {JObj(<<<<"shapes", m>>, <<"shapeDecls", n>>>>) : m \in M, n \in M1}
        \cup {JObj(<<<<"imports", m>>, <<"shapes", n>>>>) : m \in M, n \in M1}
        \cup {JObj(<<<<"shapes", JArr(<<JObj(<<<<"shapeDecls", m>>>>), JStr("x")>>)>>,
                     <<"type", JStr("Schema")>>>>) : m \in M}
        \cup {JObj(<<<<"shapes", JStr("none")>>>>), JObj(<<<<"shapes", JArr(<<>>)>>>>)}
        \cup {JObj(<<<<"schema", JObj(<<<<"shapes", m>>>>)>>>>) : m \in M}
        \cup {JArr(<<JObj(<<<<"shapes", m>>>>), JObj(<<<<"shapeDecls", n>>>>)>>) : m \in M, n \in M1}
        \cup {JObj(<<<<"shapes", JObj(<<<<"Person", BodyExpr(<<TcName, TcFoafName>>)>>>>)>>>>)}
        \cup {JStr("Schema"), JNull, JNum(1), JArr(<<>>), JObj(<<>>)}

(***************************************************************************)
(* Intermediate models handed to the emitters.                             *)
(***************************************************************************)
PropNames == {"name", "age"}

ShapeNames == {"Person", "Org"}

MkProp(n, r, mn, mx) == PropertyInfo(n, "ex:" \o n, r, mn, mx)

FullProps ==
    {MkProp(n, r, mn, mx) : n \in PropNames, r \in {"string", "integer", "Org"},
                            mn \in Opt(Counts), mx \in Opt(Counts)}

CoreCards == {<<None, None>>, <<Some(0), Some(1)>>, <<Some(1), None>>, <<Some(1), Some(MaxCount)>>}

CoreProps ==
    {MkProp(n, r, c[1], c[2]) : n \in PropNames, r \in {"string", "integer"}, c \in CoreCards}

TinyProps == {MkProp("name", "string", None, None), MkProp("name", "integer", Some(1), Some(1)),
              MkProp("age", "integer", Some(0), Some(MaxCount))}

SmallShapes == {ShapeInfo(n, ps) : n \in ShapeNames, ps \in SeqsUpTo(TinyProps, 1)}

ModelInputs ==
    {<<ShapeInfo("Person", <<p>>)>> : p \in FullProps}
        \cup {<<ShapeInfo("Person", ps)>> : ps \in SeqsUpTo(CoreProps, MaxProps)}
        \cup SeqsUpTo(SmallShapes, MaxShapes)

(***************************************************************************)
(* LinkML documents handed to the back-translator.                         *)
(***************************************************************************)
YField(key, o) == IF o = None THEN <<>> ELSE <<<<YStr(key), o[1]>>>>

\* values a document may carry under min_count / max_count
CountNodes == {None, Some(YBig), Some(YStr("1")), Some(YNull)} \cup {Some(YInt(n)) : n \in -1..MaxCount}

RangeNodes == {None, Some(YStr("string")), Some(YStr("integer")), Some(YStr("number")),
               Some(YStr("Org")), Some(YInt(1))}

ExIri == YStr("http://example.org/")

PrefixNodes ==
    {None, Some(YStr("ex")), Some(YMap(<<>>)),
     Some(YMap(<<<<YStr("ex"), ExIri>>>>)),
     Some(YMap(<<<<YStr("foaf"), YStr("http://xmlns.com/foaf/0.1/")>>, <<YStr("ex"), ExIri>>>>)),
     Some(YMap(<<<<YInt(1), ExIri>>, <<YStr("ex"), ExIri>>>>)),
     Some(YMap(<<<<YStr("foaf"), YNull>>, <<YStr("ex"), ExIri>>>>)),
     Some(YMap(<<<<YStr("foaf"), YInt(1)>>>>)),
     Some(YMap(<<<<YNull, YNull>>>>))}

ClassesNodes ==
    {YMap(<<>>),
     YMap(<<<<YStr("Person"), YMap(<<<<YStr("slots"), YSeq(<<YStr("name"), YStr("age")>>)>>>>)>>>>),
     YMap(<<<<YStr("Person"), YMap(<<<<YStr("slots"), YSeq(<<YStr("age"), YInt(1), YStr("age")>>)>>>>)>>,
            <<YInt(7), YMap(<<<<YStr("slots"), YSeq(<<YStr("name")>>)>>>>)>>,
            <<YStr("Org"), YMap(<<<<YStr("slots"), YSeq(<<>>)>>>>)>>>>),
     YMap(<<<<YStr("Person"), YNull>>,
            <<YStr("Org"), YMap(<<<<YStr("slots"), YStr("name")>>>>)>>,
            <<YStr("Place"), YMap(<<<<YStr("is_a"), YStr("Org")>>>>)>>>>)}

NoClassesNodes == {None, Some(YNull), Some(YStr("Person")), Some(YSeq(<<YStr("Person")>>))}

SlotsNodes ==
    {None, Some(YSeq(<<>>)), Some(YMap(<<>>)),
     Some(YMap(<<<<YStr("age"), YMap(<<<<YStr("range"), YStr("integer")>>,
                                        <<YStr("min_count"), YInt(1)>>,
                                        <<YStr("max_count"), YInt(MaxCount)>>>>)>>,
                 <<YStr("name"), YStr("string")>>>>))}

DocOf(prefixes, classes, slots) ==
    YMap(<<<<YStr("id"), YStr("person")>>>> \o YField("prefixes", prefixes)
         \o YField("classes", classes) \o YField("slots", slots))

AgeDoc(prefixes, range, min_count, max_count) ==
    DocOf(prefixes,
          Some(YMap(<<<<YStr("Person"), YMap(<<<<YStr("slots"), YSeq(<<YStr("age")>>)>>>>)>>>>)),
          Some(YMap(<<<<YStr("age"), YMap(YField("range", range) \o YField("min_count", min_count)
                                           \o YField("max_count", max_count))>>>>)))

\* a document with its prefixes entry removed
WithoutPrefixes(d) == YMap(SelectSeq(d.v, LAMBDA e : e[1] # YStr("prefixes")))

Scenario1Ast == JObj(<<<<"shapes", JObj(<<<<"Person", BodyExpr(<<TcName, TcAge>>)>>>>)>>>>)

Scenario1Model == extract_shapes_from_ast(Scenario1Ast).out

Scenario3Doc == WithoutPrefixes(build_linkml_doc(Some("person"), Scenario1Model))

DocInputs ==
    {AgeDoc(None, r, a, b) : r \in RangeNodes, a \in CountNodes, b \in CountNodes}
        \cup {AgeDoc(p, None, None, None) : p \in PrefixNodes}
        \cup {DocOf(p, Some(c), s) : p \in PrefixNodes, c \in ClassesNodes, s \in SlotsNodes}
        \cup {DocOf(p, c, s) : p \in PrefixNodes, c \in NoClassesNodes, s \in SlotsNodes}
        \cup {YStr("classes"), YNull, YSeq(<<YStr("classes")>>), YMap(<<>>), Scenario3Doc}

(***************************************************************************)
(* The program: main.rs runs the extractor and the two emitters on a ShEx  *)
(* input, or the back-translator on a LinkML document; lib.rs exports each *)
(* function, so each also runs on inputs of its caller's choice.           *)
(***************************************************************************)
Stems == {None, Some("person")}

Init ==
    /\ pc = "start"
    /\ ast = None
    /\ shapes = <<>>
    /\ visited = {}
    /\ origins = <<>>
    /\ linkml = None
    /\ json = None
    /\ doc = None
    /\ shex = None

\* shapes_from_rudof_ast -> extract_shapes_from_ast on the serialized AST
ExtractShapes ==
    /\ pc = "start"
    /\ \E a \in AstInputs :
          LET r == extract_shapes_from_ast(a)
          IN  /\ ast' = Some(a)
              /\ shapes' = r.out
              /\ visited' = r.visited
              /\ origins' = r.origins
    /\ pc' = "model"
    /\ UNCHANGED <<linkml, json, doc, shex>>

\* a caller of the library hands its own &[ShapeInfo] to the emitters
GivenShapes ==
    /\ pc = "start"
    /\ \E m \in ModelInputs : shapes' = m
    /\ pc' = "model"
    /\ UNCHANGED <<ast, visited, origins, linkml, json, doc, shex>>

BuildLinkml ==
    /\ pc = "model"
    /\ linkml = None
    /\ \E stem \in Stems : linkml' = Some(build_linkml_doc(stem, shapes))
    /\ UNCHANGED <<pc, ast, shapes, visited, origins, json, doc, shex>>

BuildJsonSchema ==
    /\ pc = "model"
    /\ json = None
    /\ json' = Some(build_json_schema(shapes))
    /\ UNCHANGED <<pc, ast, shapes, visited, origins, linkml, doc, shex>>

\* the emitted LinkML text is fed back: parsed, then translated
BackTranslateEmitted ==
    /\ pc = "model"
    /\ linkml # None
    /\ shex = None
    /\ doc' = linkml
    /\ shex' = Some(linkml_yaml_to_shex(linkml[1]))
    /\ UNCHANGED <<pc, ast, shapes, visited, origins, linkml, json>>

\* --back-to-shex on a LinkML document of the user's
BackTranslateGiven ==
    /\ pc = "start"
    /\ \E d \in DocInputs :
          /\ doc' = Some(d)
          /\ shex' = Some(linkml_yaml_to_shex(d))
    /\ pc' = "done"
    /\ UNCHANGED <<ast, shapes, visited, origins, linkml, json>>

Next ==
    \/ ExtractShapes
    \/ GivenShapes
    \/ BuildLinkml
    \/ BuildJsonSchema
    \/ BackTranslateEmitted
    \/ BackTranslateGiven

Spec == Init /\ [][Next]_vars

(***************************************************************************)
(* Reading a document and a tree, for the properties below.                *)
(***************************************************************************)
\* the entries of the mapping under a top-level key; <<>> when d holds no
\* mapping under that key
TopMapping(d, name) ==
    IF d.k = "map" /\ \E i \in DOMAIN d.v : d.v[i][1] = YStr(name) /\ d.v[i][2].k = "map"
    THEN d.v[CHOOSE i \in DOMAIN d.v : d.v[i][1] = YStr(name)][2].v
    ELSE <<>>

HasTopMapping(d, name) ==
    d.k = "map" /\ \E i \in DOMAIN d.v : d.v[i][1] = YStr(name) /\ d.v[i][2].k = "map"

\* the integer a slot carries under min_count / max_count, else the default
CountOf(d, slot, name, default) ==
    LET sl == TopMapping(d, "slots")
        here(i) == sl[i][1] = YStr(slot) /\ sl[i][2].k = "map"
        int(e) == e[1] = YStr(name) /\ e[2].k = "int"
    IN  IF \E i \in DOMAIN sl : here(i) /\ \E j \in DOMAIN sl[i][2].v : int(sl[i][2].v[j])
        THEN LET i == CHOOSE i \in DOMAIN sl : here(i)
                 j == CHOOSE j \in DOMAIN sl[i][2].v : int(sl[i][2].v[j])
             IN  sl[i][2].v[j][2].v
        ELSE default

SlotItemsOf(r) == {i \in DOMAIN r.items : r.items[i].kind = "slot"}

Translated == shex # None

(***************************************************************************)
(* C1: linkml_yaml_to_shex fails if and only if the document has no        *)
(* classes mapping, and then with the one message; a document with a       *)
(* classes mapping and no slots mapping is translated, every slot line     *)
(* being the one of range "string", min_count 0, max_count 1.              *)
(***************************************************************************)
C1_FailsIffNoClasses ==
    Translated =>
        LET d == doc[1]
            r == shex[1]
        IN  /\ (~r.ok) <=> ~HasTopMapping(d, "classes")
            /\ (~r.ok) => r.err = "LinkML YAML missing classes mapping" /\ r.items = <<>>
            /\ (r.ok /\ ~HasTopMapping(d, "slots")) =>
                  \A i \in SlotItemsOf(r) :
                      r.items[i].text = "  " \o r.items[i].pred \o " ? ;"

\* a document with a slots mapping and no classes mapping was refused
C1_Witness ==
    /\ Translated
    /\ ~shex[1].ok
    /\ doc[1].k = "map"
    /\ HasTopMapping(doc[1], "slots")
    /\ \E i \in DOMAIN doc[1].v : doc[1].v[i][1] = YStr("classes")

(***************************************************************************)
(* C2: every slot line carries the marker of its slot's min_count          *)
(* (default 0) and max_count (default 1): "*" for min = 0 and max > 1,     *)
(* "+" for min = 1 and max > 1, none for min = 1 and max = 1, "?" in       *)
(* every other case.                                                       *)
(***************************************************************************)
MarkerOf(min, max) ==
    CASE min = 0 /\ max > 1 -> "*"
      [] min = 1 /\ max > 1 -> "+"
      [] min = 1 /\ max = 1 -> ""
      [] OTHER -> "?"

C2_CardinalityMarker ==
    (Translated /\ shex[1].ok) =>
        \A i \in SlotItemsOf(shex[1]) :
            LET it == shex[1].items[i]
                m == MarkerOf(CountOf(doc[1], it.slot, "min_count", 0),
                              CountOf(doc[1], it.slot, "max_count", 1))
            IN  /\ it.qc = m
                /\ it.text \in {"  " \o it.pred \o " " \o c \o m \o " ;" : c \in {"", " xsd:integer"}}

\* a slot with min_count >= 2 and max_count > 1 was given the marker "?"
C2_Witness ==
    /\ Translated
    /\ shex[1].ok
    /\ \E i \in SlotItemsOf(shex[1]) :
          /\ CountOf(doc[1], shex[1].items[i].slot, "min_count", 0) >= 2
          /\ CountOf(doc[1], shex[1].items[i].slot, "max_count", 1) > 1
          /\ shex[1].items[i].qc = "?"

(***************************************************************************)
(* C3 as stated: if the prefixes mapping has at least one entry, whatever  *)
(* the types of its key and value, every predicate is                      *)
(* "<key of the first entry>:<slot>"; only if prefixes is absent or empty  *)
(* is it "http://example.org/<slot>".                                      *)
(***************************************************************************)
C3_Original ==
    (Translated /\ shex[1].ok) =>
        LET pm == TopMapping(doc[1], "prefixes")
        IN  \A i \in SlotItemsOf(shex[1]) :
                LET it == shex[1].items[i]
                IN  IF pm # <<>>
                    THEN pm[1][1].k = "str" /\ it.pred = pm[1][1].v \o ":" \o it.slot
                    ELSE it.pred = "http://example.org/" \o it.slot

(***************************************************************************)
(* C3, amended: if the prefixes mapping has an entry whose key and value   *)
(* are both strings, every predicate is "<key of the first such            *)
(* entry>:<slot>", whatever that entry's value and the other entries are;  *)
(* otherwise every predicate is "http://example.org/<slot>".               *)
(***************************************************************************)
C3_FirstStringPrefix ==
    (Translated /\ shex[1].ok) =>
        LET pm == TopMapping(doc[1], "prefixes")
            str(j) == pm[j][1].k = "str" /\ pm[j][2].k = "str"
        IN  \A i \in SlotItemsOf(shex[1]) :
                LET it == shex[1].items[i]
                IN  IF \E j \in DOMAIN pm : str(j)
                    THEN LET f == CHOOSE j \in DOMAIN pm :
                                      str(j) /\ \A h \in DOMAIN pm : str(h) => j <= h
                         IN  it.pred = pm[f][1].v \o ":" \o it.slot
                    ELSE it.pred = "http://example.org/" \o it.slot

\* the first prefixes entry is not a pair of strings, a later one is, and a
\* slot line was written
C3_Witness ==
    /\ Translated
    /\ shex[1].ok
    /\ SlotItemsOf(shex[1]) # {}
    /\ LET pm == TopMapping(doc[1], "prefixes")
       IN  /\ Len(pm) >= 2
           /\ ~(pm[1][1].k = "str" /\ pm[1][2].k = "str")
           /\ pm[2][1].k = "str" /\ pm[2][2].k = "str"

(***************************************************************************)
(* Positions of a tree.                                                    *)
(***************************************************************************)
RECURSIVE NodeAt(_, _)
NodeAt(t, p) ==
    IF p = <<>> THEN t
    ELSE NodeAt(IF t.k = "obj" THEN t.v[Head(p)][2] ELSE t.v[Head(p)], Tail(p))

\* the key under which the node at a position of a mapping sits
LabelAt(t, p) == NodeAt(t, SubSeq(p, 1, Len(p) - 1)).v[p[Len(p)]][1]

IsPrefix(p, q) == Len(p) <= Len(q) /\ SubSeq(q, 1, Len(p)) = p

NumChildren(n) == IF n.k \in {"obj", "arr"} THEN Len(n.v) ELSE 0

ContainerNode(n) ==
    n.k = "obj" /\ \E i \in DOMAIN n.v : n.v[i][1] \in {"shapeExprs", "shapes", "shapeDecls"}

MappingValues(n) == {i \in DOMAIN n.v : n.v[i][2].k = "obj"}

\* the positions, in iteration order, of the candidate bodies with a
\* non-empty property list under the values I of the node n at position p
Candidates(n, p, I) ==
    Flatten([i \in DOMAIN n.v |->
                IF i \in I
                THEN SelectSeq([j \in DOMAIN n.v[i][2].v |-> p \o <<i, j>>],
                               LAMBDA o : extract_props_from_shape(n.v[i][2].v[o[Len(o)]][2]) # <<>>)
                ELSE <<>>])

OriginsUnder(p) == SelectSeq(origins, LAMBDA o : IsPrefix(p, o))

Extracted == ast # None

\* every Shape is the one of its candidate: id = name = label, the properties
\* extracted from the body
ShapesOfOrigins ==
    /\ Len(shapes) = Len(origins)
    /\ \A n \in DOMAIN shapes :
          /\ shapes[n].id = LabelAt(ast[1], origins[n])
          /\ shapes[n].name = LabelAt(ast[1], origins[n])
          /\ shapes[n].properties = extract_props_from_shape(NodeAt(ast[1], origins[n]))

(***************************************************************************)
(* C4 as stated: at a reached mapping node with a container key, the       *)
(* candidates of EVERY value that is a mapping yield the Shapes, in        *)
(* iteration order.                                                        *)
(***************************************************************************)
C4_Original ==
    Extracted =>
        /\ ShapesOfOrigins
        /\ \A p \in visited :
              LET n == NodeAt(ast[1], p)
              IN  (ContainerNode(n) /\ MappingValues(n) # {}) =>
                      OriginsUnder(p) = Candidates(n, p, MappingValues(n))

(***************************************************************************)
(* C4, amended: at a reached mapping node with a container key, only the   *)
(* FIRST value (in iteration order) that is itself a mapping is read: each *)
(* of its keys is a label, each value a candidate, and each candidate      *)
(* whose property list is non-empty yields one Shape (id = name = label),  *)
(* in iteration order; the later mapping values yield nothing.             *)
(***************************************************************************)
C4_FirstMappingOnly ==
    Extracted =>
        /\ ShapesOfOrigins
        /\ \A p \in visited :
              LET n == NodeAt(ast[1], p)
              IN  (ContainerNode(n) /\ MappingValues(n) # {}) =>
                      LET first == CHOOSE i \in MappingValues(n) :
                                       \A j \in MappingValues(n) : i <= j
                      IN  OriginsUnder(p) = Candidates(n, p, {first})

\* a reached container node with two mapping values, each holding a
\* candidate with properties; a Shape was emitted
C4_Witness ==
    /\ Extracted
    /\ shapes # <<>>
    /\ \E p \in visited :
          LET n == NodeAt(ast[1], p)
          IN  /\ ContainerNode(n)
              /\ \E i, j \in MappingValues(n) :
                    /\ i < j
                    /\ Candidates(n, p, {i}) # <<>>
                    /\ Candidates(n, p, {j}) # <<>>

(***************************************************************************)
(* C8: every Shape the extractor returns has at least one property; a      *)
(* candidate whose property list is empty is never retained.               *)
(***************************************************************************)
C8_NoEmptyShape ==
    Extracted =>
        /\ \A n \in DOMAIN shapes : shapes[n].properties # <<>>
        /\ \A n \in DOMAIN origins : extract_props_from_shape(NodeAt(ast[1], origins[n])) # <<>>

\* a label mapping was read that holds a candidate without properties next
\* to one with properties
C8_Witness ==
    /\ Extracted
    /\ shapes # <<>>
    /\ \E p \in visited :
          LET n == NodeAt(ast[1], p)
          IN  /\ ContainerNode(n)
              /\ MappingValues(n) # {}
              /\ LET first == CHOOSE i \in MappingValues(n) : \A j \in MappingValues(n) : i <= j
                     m == n.v[first][2]
                 IN  /\ \E j \in DOMAIN m.v : extract_props_from_shape(m.v[j][2]) = <<>>
                     /\ \E j \in DOMAIN m.v : extract_props_from_shape(m.v[j][2]) # <<>>

(***************************************************************************)
(* C10 as stated: at any reached mapping node with a container key the     *)
(* traversal never recurses into the node's children and no Shape deeper   *)
(* beneath it is emitted; every child is visited only at nodes where no    *)
(* container key matches.                                                  *)
(***************************************************************************)
NoChildVisited(p) == \A q \in visited : IsPrefix(p, q) => q = p

AllChildrenVisited(p, n) == \A i \in 1..NumChildren(n) : Append(p, i) \in visited

C10_Original ==
    Extracted =>
        \A p \in visited :
            LET n == NodeAt(ast[1], p)
            IN  IF ContainerNode(n)
                THEN /\ NoChildVisited(p)
                     /\ \A i \in DOMAIN origins :
                           IsPrefix(p, origins[i]) => Len(origins[i]) = Len(p) + 2
                ELSE AllChildrenVisited(p, n)

(***************************************************************************)
(* C10, amended: at a reached mapping node with a container key AND at     *)
(* least one value that is a mapping, the traversal returns after          *)
(* processing that value and never recurses into the node's children, so   *)
(* no Shape deeper beneath it is emitted; at every other reached node (no  *)
(* container key, or a container key but no mapping among the values)      *)
(* every child value is visited.                                           *)
(***************************************************************************)
C10_StopsAtProcessedContainer ==
    Extracted =>
        \A p \in visited :
            LET n == NodeAt(ast[1], p)
            IN  IF ContainerNode(n) /\ MappingValues(n) # {}
                THEN /\ NoChildVisited(p)
                     /\ \A i \in DOMAIN origins :
                           IsPrefix(p, origins[i]) => Len(origins[i]) = Len(p) + 2
                ELSE AllChildrenVisited(p, n)

\* a container node without a mapping value was searched through and a
\* Shape found beneath it, at a container that was not searched further
C10_Witness ==
    /\ Extracted
    /\ \E p, q \in visited :
          /\ p # q
          /\ IsPrefix(p, q)
          /\ ContainerNode(NodeAt(ast[1], p))
          /\ MappingValues(NodeAt(ast[1], p)) = {}
          /\ ContainerNode(NodeAt(ast[1], q))
          /\ OriginsUnder(q) # <<>>
          /\ \E i, j \in 1..MaxShapes :
                /\ i \in DOMAIN NodeAt(ast[1], q).v
                /\ NodeAt(ast[1], q).v[i][2].k = "obj"
                /\ j \in DOMAIN NodeAt(ast[1], q).v[i][2].v
                /\ ContainerNode(NodeAt(ast[1], q).v[i][2].v[j][2])

(***************************************************************************)
(* Reading the emitted JSON Schema.                                        *)
(***************************************************************************)
\* the shapes whose entry survives in a mapping keyed by shape name: the
\* last of each name
Surviving == {n \in DOMAIN shapes : \A m \in DOMAIN shapes : shapes[m].name = shapes[n].name => m <= n}

JsonField(x, key) == x.v[CHOOSE i \in DOMAIN x.v : x.v[i][1] = key][2]

HasJsonField(x, key) == \E i \in DOMAIN x.v : x.v[i][1] = key

Definition(name) == JsonField(JsonField(json[1], "definitions"), name)

\* the names in the required list of a definition; <<>> when the key is omitted
RequiredNames(def) ==
    IF HasJsonField(def, "required")
    THEN [i \in DOMAIN JsonField(def, "required").v |-> JsonField(def, "required").v[i].v]
    ELSE <<>>

Qualifies(p) == p.min # None /\ p.min[1] > 0

SchemaBuilt == json # None

(***************************************************************************)
(* C5 as stated: for every shape, a property name appears in the required  *)
(* list if and only if that property's min is present and greater than     *)
(* zero (names in declaration order, the key omitted when none qualifies). *)
(***************************************************************************)
C5_Original ==
    SchemaBuilt =>
        \A n \in Surviving :
            LET def == Definition(shapes[n].name)
                ps == shapes[n].properties
            IN  /\ \A i \in DOMAIN ps : (ps[i].name \in Range(RequiredNames(def))) <=> Qualifies(ps[i])
                /\ HasJsonField(def, "required") <=> (\E i \in DOMAIN ps : Qualifies(ps[i]))

(***************************************************************************)
(* C5, amended: for every shape, the required list holds one entry per     *)
(* property whose min is present and greater than zero, namely its name,   *)
(* in declaration order - so a name appears if and only if SOME property   *)
(* of the shape with that name qualifies - and the required key is omitted *)
(* when no property of the shape qualifies.                                *)
(***************************************************************************)
C5_RequiredPerQualifyingProperty ==
    SchemaBuilt =>
        \A n \in Surviving :
            LET def == Definition(shapes[n].name)
                q == SelectSeq(shapes[n].properties, Qualifies)
            IN  /\ RequiredNames(def) = [i \in DOMAIN q |-> q[i].name]
                /\ HasJsonField(def, "required") <=> q # <<>>

\* a shape with two properties of one name, only one of which qualifies
C5_Witness ==
    /\ SchemaBuilt
    /\ \E n \in Surviving :
          \E i, j \in DOMAIN shapes[n].properties :
              /\ shapes[n].properties[i].name = shapes[n].properties[j].name
              /\ Qualifies(shapes[n].properties[i])
              /\ ~Qualifies(shapes[n].properties[j])

(***************************************************************************)
(* Round trip: the model is emitted with build_linkml_doc and the document *)
(* translated back.                                                        *)
(***************************************************************************)
RoundTripped == pc = "model" /\ shex # None

\* the properties of the model named as a slot
PropsNamed(slot) ==
    {p \in UNION {Range(shapes[n].properties) : n \in DOMAIN shapes} : p.name = slot}

(***************************************************************************)
(* C6: a Property whose min and max are both absent is treated as          *)
(* exactly-one: after emission to LinkML and back-translation its slot     *)
(* line carries the empty marker, as for min = 1, max = 1.                 *)
(***************************************************************************)
C6_AbsentIsExactlyOne ==
    RoundTripped =>
        \A i \in SlotItemsOf(shex[1]) :
            (\A p \in PropsNamed(shex[1].items[i].slot) : p.min = None /\ p.max = None)
                => shex[1].items[i].qc = ""

(***************************************************************************)
(* C7 as stated: the LinkML document of scenario 1 without its prefixes    *)
(* entry translates to a text holding "<Person> IRI" and the line          *)
(* "  http://example.org/age ?;".                                          *)
(***************************************************************************)
Scenario3 == Translated /\ doc = Some(Scenario3Doc)

C7_Original ==
    Scenario3 =>
        /\ shex[1].ok
        /\ "<Person> IRI" \in Range(Lines(shex[1]))
        /\ "  http://example.org/age ?;" \in Range(Lines(shex[1]))

(***************************************************************************)
(* C7, amended: that document translates to a text holding "<Person> IRI"  *)
(* and the line "  http://example.org/age  xsd:integer? ;".                *)
(***************************************************************************)
C7_Scenario3 ==
    Scenario3 =>
        /\ shex[1].ok
        /\ "<Person> IRI" \in Range(Lines(shex[1]))
        /\ "  http://example.org/age  xsd:integer? ;" \in Range(Lines(shex[1]))

C7_Witness == Scenario3 /\ Len(shex[1].items) = 6

LinkmlBuilt == linkml # None

\* the properties of the model, in shape order then declaration order
AllProperties == Flatten([n \in DOMAIN shapes |-> shapes[n].properties])

\* the last property of a name
LastNamed(name) ==
    LET ps == AllProperties
    IN  ps[CHOOSE i \in DOMAIN ps :
               ps[i].name = name /\ \A j \in DOMAIN ps : ps[j].name = name => j <= i]

\* the value of a slot entry under a key, as an Option
SlotField(entry, key) ==
    IF \E i \in DOMAIN entry.v : entry.v[i][1] = YStr(key)
    THEN Some(entry.v[CHOOSE i \in DOMAIN entry.v : entry.v[i][1] = YStr(key)][2])
    ELSE None

(***************************************************************************)
(* C11: the slots mapping of build_linkml_doc holds exactly one entry per  *)
(* distinct property name of the model, and the entry holds the values of  *)
(* the LAST property of that name (shape order, then declaration order):   *)
(* range unmodified, min_count / max_count present exactly when that       *)
(* property's min / max are, with their values, and nothing else.          *)
(***************************************************************************)
C11_SlotsLastWriteWins ==
    LinkmlBuilt =>
        LET sl == TopMapping(linkml[1], "slots")
            names == {AllProperties[i].name : i \in DOMAIN AllProperties}
        IN  /\ HasTopMapping(linkml[1], "slots")
            /\ {sl[i][1] : i \in DOMAIN sl} = {YStr(n) : n \in names}
            /\ Len(sl) = Cardinality(names)
            /\ \A i \in DOMAIN sl :
                  LET p == LastNamed(sl[i][1].v)
                      e == sl[i][2]
                  IN  /\ e.k = "map"
                      /\ SlotField(e, "range") = Some(YStr(p.range))
                      /\ SlotField(e, "min_count") =
                            (IF p.min = None THEN None ELSE Some(YInt(p.min[1])))
                      /\ SlotField(e, "max_count") =
                            (IF p.max = None THEN None ELSE Some(YInt(p.max[1])))
                      /\ \A j \in DOMAIN e.v :
                            e.v[j][1] \in {YStr("range"), YStr("min_count"), YStr("max_count")}

\* two shapes declare a property of one name with different range, min and
\* max, the earlier with both counts, the later with none
C11_Witness ==
    /\ LinkmlBuilt
    /\ Len(shapes) >= 2
    /\ \E n, m \in DOMAIN shapes :
          /\ n < m
          /\ \E i \in DOMAIN shapes[n].properties, j \in DOMAIN shapes[m].properties :
                LET a == shapes[n].properties[i]
                    b == shapes[m].properties[j]
                IN  /\ a.name = b.name
                    /\ a.range # b.range
                    /\ a.min # None /\ a.max # None
                    /\ b.min = None /\ b.max = None
                    /\ b = LastNamed(b.name)

====
